---- MODULE Spec2Model ----
(***************************************************************************)
(* The transmit descriptor ring, its completion queue and the send,        *)
(* completion and quiesce paths of drivers/linux/eth/ionic/ionic_txrx.c.   *)
(*                                                                         *)
(* Abstractions used throughout:                                           *)
(*  - a DMA mapping is named by the place where the driver keeps its       *)
(*    address: <<slot, 0>> is the address in the descriptor of ring slot   *)
(*    `slot`, <<slot, j>> (j >= 1) the address in its j-th scatter-gather  *)
(*    element;                                                             *)
(*  - a packet object (skb) accepted by the transmit ring is named by the  *)
(*    slot of its first descriptor plus one; NULL is 0;                     *)
(*  - `idx & (num_descs - 1)` is `idx % num_descs`, the two agree on the   *)
(*    power-of-two ring sizes the driver uses;                             *)
(*  - statistics counters that only grow (pkts, bytes, stop, wake, ...)    *)
(*    are left out unless a property reads them.                           *)
(***************************************************************************)
EXTENDS Integers, Sequences, FiniteSets, TLC

\* ------------------------------------------------------------------ bounds
num_descs == 4          \* q->num_descs of the ring
cq_num_descs == 2       \* cq->num_descs of the completion queue
max_sg_elems == 2       \* q->max_sg_elems
MaxBudget == 2          \* largest napi budget tried
MaxFrags == 3           \* most page fragments of a packet
MaxFragLen == 2         \* longest page fragment, in bytes
MaxHeadLen == 3         \* longest linear region, in bytes
MaxMss == 3             \* largest gso_size
MaxHdrLen == 1          \* largest TCP/IP header length of a TSO packet

IONIC_PAGE_SIZE == 4     \* bytes of a receive page
IONIC_PAGE_SPLIT_SZ == 2 \* granularity at which a receive page is split
RxFrameLen == 2          \* netdev->mtu + ETH_HLEN
rx_copybreak == 1        \* q->lif->rx_copybreak
MaxRxLen == 3            \* longest length a receive completion reports
tx_budget == 1           \* transmit budget of the combined poll

\* ------------------------------------------------------- program constants
TxStopThresh == 4       \* ionic_maybe_stop_tx(q, 4) after a successful send

NULL == 0

Min(a, b) == IF a < b THEN a ELSE b

RECURSIVE SumSeq(_)
SumSeq(s) == IF s = <<>> THEN 0 ELSE Head(s) + SumSeq(Tail(s))

Slots == 0 .. (num_descs - 1)

\* F applied to the value of x, x being evaluated once
Let(F(_), x) == CHOOSE r \in {F(v) : v \in {x}} : TRUE

Let2(F(_, _), x, y) == CHOOSE r \in {F(v, w) : v \in {x}, w \in {y}} : TRUE

\* (idx + 1) & (q->num_descs - 1)
NextIdx(idx) == (idx + 1) % num_descs

\* ------------------------------------------------------------ ring helpers
\* ionic_q_space_avail(): free slots, the ring counting as full one slot early
ionic_q_space_avail_all_slots(q) ==
    IF q.head_idx >= q.tail_idx
    THEN q.tail_idx + num_descs - q.head_idx
    ELSE q.tail_idx - q.head_idx

ionic_q_space_avail(q) ==
    IF q.head_idx >= q.tail_idx
    THEN q.tail_idx + num_descs - q.head_idx - 1
    ELSE q.tail_idx - (q.head_idx + 1)

\* ionic_q_has_space(q, want)
ionic_q_has_space(q, want) == ionic_q_space_avail(q) >= want

\* ionic_q_post(q, ring_dbell, cb, cb_arg): the software half of the slot at
\* head is written, head advances, and the doorbell carries the new head.
ionic_q_post(q, ring_dbell, cb_arg) ==
    LET nh == NextIdx(q.head_idx)
    IN [q EXCEPT !.info[q.head_idx].cb = TRUE,
                 !.info[q.head_idx].cb_arg = cb_arg,
                 !.head_idx = nh,
                 !.dbell = IF ring_dbell THEN nh ELSE @]

\* ionic_txq_post
ionic_txq_post(q, ring_dbell, cb_arg) == ionic_q_post(q, ring_dbell, cb_arg)

\* ionic_rxq_post
ionic_rxq_post(q, ring_dbell, cb_arg) == ionic_q_post(q, ring_dbell, cb_arg)

\* --------------------------------------------------------- transmit clean
\* ionic_tx_clean(q, desc_info, cq_info, cb_arg) on slot i: the descriptor's
\* address and its nsge scatter-gather addresses are unmapped; a non-NULL
\* cb_arg is the packet, which is freed, after waking a stopped subqueue when
\* the call comes from a completion (cq_info non-NULL).
ionic_tx_clean(q, i, has_cq_info, cb_arg, stopped) ==
    LET d == q.info[i]
    IN [unmap  |-> {<<i, 0>>} \cup {<<i, j>> : j \in 1 .. d.nsge},
        single |-> (d.opcode # "TSO" \/ d.sot),
        freed  |-> cb_arg,
        wake   |-> (cb_arg # NULL /\ stopped /\ has_cq_info)]

\* ------------------------------------------------------------ TSO encoding
\* ionic_tx_tso_post followed by the caller's bookkeeping
\* (desc = ionic_tx_tso_next(); start = false): the descriptor at head is
\* written and posted with callback argument arg, ringing the doorbell if db.
tso_post_as(c, p, done, arg, db, start_after) ==
    LET h  == c.q.head_idx
        q1 == [c.q EXCEPT !.info[h].opcode = "TSO",
                          !.info[h].sot = c.start,
                          !.info[h].eot = done,
                          !.info[h].nsge = c.desc_nsge]
    IN [c EXCEPT !.q = ionic_txq_post(q1, db, arg),
                 !.start = start_after,
                 !.posts = Append(@, [slot |-> h, opcode |-> "TSO",
                                      sot |-> c.start, eot |-> done,
                                      nsge |-> c.desc_nsge, len |-> c.desc_len,
                                      sglens |-> c.sglens, dbell |-> db,
                                      cb_arg |-> arg])]

ionic_tx_tso_post_keeps_start(c, p, done) ==
    tso_post_as(c, p, done, IF done THEN p.skb ELSE NULL, done /\ ~p.xmit_more, c.start)

ionic_tx_tso_post_skb_on_each(c, p, done) ==
    tso_post_as(c, p, done, p.skb, done /\ ~p.xmit_more, FALSE)

ionic_tx_tso_post_dbell_on_each(c, p, done) ==
    tso_post_as(c, p, done, IF done THEN p.skb ELSE NULL, ~p.xmit_more, FALSE)

ionic_tx_tso_post(c, p, done) ==
    tso_post_as(c, p, done, IF done THEN p.skb ELSE NULL, done /\ ~p.xmit_more, FALSE)

\* seglen = hdrlen + mss: the first segment carries the headers
tso_first_seglen_no_hdr(p) == p.mss

tso_first_seglen(p) == p.hdrlen + p.mss

\* "Chop skb->data up into desc segments": while (left > 0) over the linear
\* region. ionic_tx_map_single returns 0 when dma_map_single fails, and the
\* caller asks dma_mapping_error() about that 0: p.zero_is_err is the answer
\* of the platform's dma_mapping_error() for the address 0.
RECURSIVE tso_chop_data(_, _)
tso_chop_data(c0, p) ==
    Let(LAMBDA c :
        IF c.err \/ c.left = 0 THEN c
        ELSE LET len    == Min(c.seglen, c.left)
                 fl     == c.seglen - len
                 k      == c.k + 1
                 failed == (k = p.failk)
             IN IF failed /\ p.zero_is_err
                THEN [c EXCEPT !.k = k, !.frag_left = fl, !.err = TRUE, !.mapfail = TRUE]
                ELSE Let(LAMBDA c1 :
                         IF c1.nfrags > 0 /\ fl > 0
                         THEN tso_chop_data(c1, p)
                         ELSE tso_chop_data(
                                [ionic_tx_tso_post(c1, p, c1.nfrags = 0 /\ c1.left = 0)
                                    EXCEPT !.seglen = p.mss], p),
                         [c EXCEPT !.k = k, !.frag_left = fl,
                                   !.desc_len = len, !.desc_nsge = 0,
                                   !.sglens = <<>>,
                                   !.left = @ - len,
                                   !.mapfail = @ \/ failed,
                                   !.maps = IF failed THEN @
                                            ELSE @ \cup {<<c.q.head_idx, 0>>}]),
        c0)

\* after a mapping of the fragment loop succeeded: if (nfrags > 0 &&
\* frag_left > 0) continue; otherwise the descriptor is posted
RECURSIVE tso_chop_frag(_, _)
tso_frag_mapped(c1, p) ==
    IF c1.nfrags > 0 /\ c1.frag_left > 0
    THEN tso_chop_frag(c1, p)
    ELSE tso_chop_frag(ionic_tx_tso_post(c1, p, c1.nfrags = 0 /\ c1.left = 0), p)

\* while (left > 0) over one page fragment
tso_chop_frag(c0, p) ==
    Let(LAMBDA c :
        IF c.err \/ c.left = 0 THEN c
        ELSE LET k      == c.k + 1
                 failed == (k = p.failk)
                 h      == c.q.head_idx
             IN IF c.frag_left > 0
                THEN LET len == Min(c.frag_left, c.left)
                     IN IF failed
                        THEN [c EXCEPT !.k = k, !.frag_left = @ - len,
                                       !.err = TRUE, !.mapfail = TRUE]
                        ELSE Let(LAMBDA c1 : tso_frag_mapped(c1, p),
                                 [c EXCEPT !.k = k, !.frag_left = @ - len,
                                           !.sglens = Append(@, len),
                                           !.desc_nsge = @ + 1,
                                           !.left = @ - len,
                                           !.maps = @ \cup {<<h, c.desc_nsge + 1>>}])
                ELSE LET len == Min(p.mss, c.left)
                     IN IF failed
                        THEN [c EXCEPT !.k = k, !.frag_left = p.mss - len,
                                       !.err = TRUE, !.mapfail = TRUE]
                        ELSE Let(LAMBDA c1 : tso_frag_mapped(c1, p),
                                 [c EXCEPT !.k = k, !.frag_left = p.mss - len,
                                           !.desc_len = len, !.desc_nsge = 0,
                                           !.sglens = <<>>,
                                           !.left = @ - len,
                                           !.maps = @ \cup {<<h, 0>>}]),
        c0)

\* "Chop skb frags into desc segments": for (frag = frags; len_left; frag++)
RECURSIVE tso_chop_frags(_, _, _)
tso_chop_frags(c0, p, fi) ==
    Let(LAMBDA c :
        IF c.err \/ c.len_left = 0 THEN c
        ELSE tso_chop_frags(
               tso_chop_frag([c EXCEPT !.left = p.frags[fi],
                                       !.len_left = @ - p.frags[fi],
                                       !.nfrags = @ - 1], p),
               p, fi + 1),
        c0)

\* err_out_abort: every slot from the head at entry up to the current head
\* is cleaned with cq_info = NULL and cb_arg = NULL.
RECURSIVE tso_rewind(_, _, _)
tso_rewind(q, rewind, acc0) ==
    Let(LAMBDA acc :
        IF rewind = q.head_idx THEN acc
        ELSE LET r == ionic_tx_clean(q, rewind, FALSE, NULL, FALSE)
             IN tso_rewind(q, NextIdx(rewind),
                           [unmaps  |-> acc.unmaps \cup r.unmap,
                            touched |-> Append(acc.touched, rewind),
                            freed   |-> acc.freed \cup ({r.freed} \ {NULL})]),
        acc0)

tso_abort_head(q, abort) == [q EXCEPT !.head_idx = abort]

\* ionic_tx_tso(q, skb)
ionic_tx_tso(q, p) ==
    LET none == [q |-> q, err |-> TRUE, mapfail |-> FALSE, posts |-> <<>>,
                 maps |-> {}, unmaps |-> {}, touched |-> <<>>, freed |-> {}]
        abort == q.head_idx
        c0 == [q |-> q, err |-> FALSE, mapfail |-> FALSE,
               left |-> p.headlen, len_left |-> SumSeq(p.frags),
               nfrags |-> Len(p.frags), seglen |-> tso_first_seglen(p),
               frag_left |-> 0, start |-> TRUE,
               desc_len |-> 0, desc_nsge |-> 0, sglens |-> <<>>,
               k |-> 0, posts |-> <<>>, maps |-> {}]
    IN IF p.cow_fail THEN none      \* skb_cow_head() failed
       ELSE Let(LAMBDA c :
                IF c.err
                THEN Let(LAMBDA rw :
                         [q |-> tso_abort_head(c.q, abort), err |-> TRUE,
                          mapfail |-> c.mapfail,
                          posts |-> c.posts, maps |-> c.maps,
                          unmaps |-> rw.unmaps, touched |-> rw.touched,
                          freed |-> rw.freed],
                         tso_rewind(c.q, abort,
                                    [unmaps |-> {}, touched |-> <<>>, freed |-> {}]))
                ELSE [q |-> c.q, err |-> FALSE, mapfail |-> c.mapfail,
                      posts |-> c.posts, maps |-> c.maps,
                      unmaps |-> {}, touched |-> <<>>, freed |-> {}],
                tso_chop_frags(tso_chop_data(c0, p), p, 1))

\* ------------------------------------------------------- plain (non-TSO) send
\* ionic_tx_calc_csum / ionic_tx_calc_no_csum: the linear region is mapped and
\* the descriptor written (opcode, nsge = nr_frags, address); nothing is posted.
ionic_tx_calc(q, p) ==
    LET h      == q.head_idx
        failed == (1 = p.failk)
    IN IF failed /\ p.zero_is_err
       THEN [q |-> q, err |-> TRUE, mapfail |-> TRUE, maps |-> {}]
       ELSE [q |-> [q EXCEPT !.info[h].opcode =
                                 IF p.csum THEN "CSUM_PARTIAL" ELSE "CSUM_NONE",
                             !.info[h].sot = FALSE,
                             !.info[h].eot = FALSE,
                             !.info[h].nsge = Len(p.frags)],
             err |-> FALSE, mapfail |-> failed,
             maps |-> IF failed THEN {} ELSE {<<h, 0>>}]

\* ionic_tx_skb_frags: for (frag = frags; len_left; frag++, elem++), fragment
\* fi is the (fi + 1)-th mapping of the packet; a failed mapping returns
\* -ENOMEM at once.
RECURSIVE ionic_tx_skb_frags(_, _, _, _)
ionic_tx_skb_frags(h, p, fi, maps) ==
    IF fi > Len(p.frags) THEN [err |-> FALSE, maps |-> maps]
    ELSE IF fi + 1 = p.failk THEN [err |-> TRUE, maps |-> maps]
    ELSE ionic_tx_skb_frags(h, p, fi + 1, maps \cup {<<h, fi>>})

\* ionic_tx(q, skb)
ionic_tx(q, p) ==
    Let(LAMBDA d :
        LET h  == q.head_idx
            db == ~p.xmit_more
            none == [q |-> d.q, err |-> TRUE, mapfail |-> TRUE, posts |-> <<>>,
                     maps |-> d.maps, unmaps |-> {}, touched |-> <<>>, freed |-> {}]
        IN IF d.err THEN none
           ELSE Let(LAMBDA f :
                    IF f.err THEN [none EXCEPT !.maps = f.maps]
                    ELSE [q |-> ionic_txq_post(d.q, db, p.skb),
                          err |-> FALSE, mapfail |-> d.mapfail,
                          posts |-> << [slot |-> h, opcode |-> d.q.info[h].opcode,
                                        sot |-> FALSE, eot |-> FALSE,
                                        nsge |-> Len(p.frags), len |-> p.headlen,
                                        sglens |-> p.frags, dbell |-> db,
                                        cb_arg |-> p.skb] >>,
                          maps |-> f.maps, unmaps |-> {}, touched |-> <<>>,
                          freed |-> {}],
                    ionic_tx_skb_frags(h, p, 1, d.maps)),
        ionic_tx_calc(q, p))

\* ------------------------------------------------------------ send entry
SkbLen(p) == p.headlen + SumSeq(p.frags)

\* ionic_tx_descs_needed(q, skb): the descriptor estimate, or a negative
\* errno when skb_linearize() fails; a linearised packet has no fragments.
ionic_tx_descs_needed_one_desc(p) ==
    IF p.gso THEN [n |-> 1, p |-> p]
    ELSE IF Len(p.frags) <= max_sg_elems THEN [n |-> 1, p |-> p]
    ELSE IF p.lin_fail THEN [n |-> -1, p |-> p]
    ELSE [n |-> 1, p |-> [p EXCEPT !.headlen = SkbLen(p), !.frags = <<>>]]

ionic_tx_descs_needed_no_spare(p) ==
    IF p.gso THEN [n |-> SkbLen(p) \div p.mss, p |-> p]
    ELSE IF Len(p.frags) <= max_sg_elems THEN [n |-> 1, p |-> p]
    ELSE IF p.lin_fail THEN [n |-> -1, p |-> p]
    ELSE [n |-> 1, p |-> [p EXCEPT !.headlen = SkbLen(p), !.frags = <<>>]]

ionic_tx_descs_needed(p) ==
    IF p.gso THEN [n |-> (SkbLen(p) \div p.mss) + 1, p |-> p]
    ELSE IF Len(p.frags) <= max_sg_elems THEN [n |-> 1, p |-> p]
    ELSE IF p.lin_fail THEN [n |-> -1, p |-> p]
    ELSE [n |-> 1, p |-> [p EXCEPT !.headlen = SkbLen(p), !.frags = <<>>]]

\* ionic_maybe_stop_tx(q, ndescs): q is the ring as read by the first space
\* check, q_again the ring as read after smp_rmb().
ionic_maybe_stop_tx_no_report(q, q_again, stopped, ndescs) ==
    IF ~ionic_q_has_space(q, ndescs)
    THEN IF ionic_q_has_space(q_again, ndescs)
         THEN [stopped |-> 0, sub_stopped |-> FALSE]
         ELSE [stopped |-> 0, sub_stopped |-> TRUE]
    ELSE [stopped |-> 0, sub_stopped |-> stopped]

ionic_maybe_stop_tx(q, q_again, stopped, ndescs) ==
    IF ~ionic_q_has_space(q, ndescs)
    THEN IF ionic_q_has_space(q_again, ndescs)
         THEN [stopped |-> 0, sub_stopped |-> FALSE]
         ELSE [stopped |-> 1, sub_stopped |-> TRUE]
    ELSE [stopped |-> 0, sub_stopped |-> stopped]

\* ionic_start_xmit(skb, netdev): p holds the packet and what its environment
\* answers during the call (up: IONIC_LIF_F_UP; xmit_more; failk: which DMA
\* mapping of the call fails, 0 for none).
start_xmit_body(q, stopped, p, dn) ==
        LET ms   == ionic_maybe_stop_tx(q, q, stopped, dn.n)
            base == [op |-> "xmit", ret |-> "OK", gso |-> p.gso, skb |-> p.skb,
                     len |-> SkbLen(p), mss |-> p.mss, hdrlen |-> p.hdrlen,
                     nfrags |-> Len(p.frags),
                     xmit_more |-> p.xmit_more, ndescs |-> dn.n,
                     head0 |-> q.head_idx, space0 |-> ionic_q_space_avail(q),
                     called |-> "none", err |-> FALSE, mapfail |-> FALSE,
                     failk |-> 0, posts |-> <<>>, maps |-> {}, unmaps |-> {},
                     touched |-> <<>>, clean_freed |-> {}, skb_freed |-> FALSE]
        IN IF ~p.up
           THEN [q |-> q, stopped |-> stopped,
                 last |-> [base EXCEPT !.ndescs = 0, !.skb_freed = TRUE]]
           ELSE IF dn.n < 0
           THEN [q |-> q, stopped |-> stopped,                 \* err_out_drop
                 last |-> [base EXCEPT !.err = TRUE, !.skb_freed = TRUE]]
           ELSE IF ms.stopped = 1
           THEN [q |-> q, stopped |-> ms.sub_stopped,
                 last |-> [base EXCEPT !.ret = "BUSY"]]
           ELSE Let(LAMBDA tx :
                    LET ms2 == ionic_maybe_stop_tx(tx.q, tx.q, ms.sub_stopped,
                                                   TxStopThresh)
                        l == [base EXCEPT
                                 !.called = IF p.gso THEN "tso" ELSE "tx",
                                 !.err = tx.err, !.mapfail = tx.mapfail,
                                 !.failk = IF tx.mapfail THEN p.failk ELSE 0,
                                 !.posts = tx.posts, !.maps = tx.maps,
                                 !.unmaps = tx.unmaps, !.touched = tx.touched,
                                 !.clean_freed = tx.freed]
                    IN IF tx.err
                       THEN [q |-> tx.q, stopped |-> ms.sub_stopped, \* err_out_drop
                             last |-> [l EXCEPT !.skb_freed = TRUE]]
                       ELSE [q |-> tx.q, stopped |-> ms2.sub_stopped, last |-> l],
                    IF p.gso THEN ionic_tx_tso(q, dn.p) ELSE ionic_tx(q, dn.p))

ionic_start_xmit(q, stopped, p0) ==
    Let(LAMBDA p : Let(LAMBDA dn : start_xmit_body(q, stopped, p, dn),
                       ionic_tx_descs_needed(p)),
        [p0 EXCEPT !.skb = q.head_idx + 1])

\* ------------------------------------------------------ transmit completion
\* ionic_tx_service(cq, cq_info): st = [q, stopped, live, bad_free, fly,
\* desync, cleaned, freed]; the do-while pops the slot at tail, cleans it and
\* clears cb/cb_arg until the popped slot's index is comp_index.
\* the loop leaving after its first pop, whatever comp_index is
tx_service_loop_one_pop(st0, comp_index) ==
    Let(LAMBDA st :
        LET q   == st.q
            i   == q.tail_idx
            arg == q.info[i].cb_arg
            r   == ionic_tx_clean(q, i, TRUE, arg, st.stopped)
        IN [st EXCEPT !.q = [q EXCEPT !.tail_idx = NextIdx(i),
                                      !.info[i].cb = FALSE,
                                      !.info[i].cb_arg = NULL],
                      !.stopped = IF r.wake THEN FALSE ELSE @,
                      !.live = @ \ {r.freed},
                      !.bad_free = @ \/ (r.freed # NULL /\ r.freed \notin st.live),
                      !.desync = @ \/ st.fly = <<>> \/ Head(st.fly) # i,
                      !.fly = IF @ # <<>> /\ Head(@) = i THEN Tail(@) ELSE @,
                      !.cleaned = Append(@, i),
                      !.freed = IF r.freed # NULL THEN Append(@, r.freed) ELSE @],
        st0)

RECURSIVE tx_service_loop(_, _)
tx_service_loop(st0, comp_index) ==
    Let(LAMBDA st :
        LET q   == st.q
            i   == q.tail_idx
            arg == q.info[i].cb_arg
            r   == ionic_tx_clean(q, i, TRUE, arg, st.stopped)
            st1 == [st EXCEPT !.q = [q EXCEPT !.tail_idx = NextIdx(i),
                                              !.info[i].cb = FALSE,
                                              !.info[i].cb_arg = NULL],
                              !.stopped = IF r.wake THEN FALSE ELSE @,
                              !.live = @ \ {r.freed},
                              !.bad_free = @ \/ (r.freed # NULL /\ r.freed \notin st.live),
                              !.desync = @ \/ st.fly = <<>> \/ Head(st.fly) # i,
                              !.fly = IF @ # <<>> /\ Head(@) = i THEN Tail(@) ELSE @,
                              !.cleaned = Append(@, i),
                              !.freed = IF r.freed # NULL THEN Append(@, r.freed) ELSE @]
        IN IF i = comp_index THEN st1 ELSE tx_service_loop(st1, comp_index),
        st0)

\* what one call of ionic_tx_service did to the ring: the slots it popped, in
\* order, whether each was left with cb and cb_arg cleared, and whether the
\* slots still between tail_idx and head_idx are as they were
tx_service_note(q0, q1, cleaned, entry, cq) ==
    [color |-> entry.color, done_color |-> cq.done_color,
     comp_index |-> entry.comp_index,
     tail0 |-> q0.tail_idx, head0 |-> q0.head_idx,
     tail1 |-> q1.tail_idx, head1 |-> q1.head_idx,
     cleaned |-> cleaned,
     cleared |-> \A n \in 1 .. Len(cleaned) :
                    ~q1.info[cleaned[n]].cb /\ q1.info[cleaned[n]].cb_arg = NULL,
     rest_same |-> \A i \in Slots :
                      (i - q1.tail_idx) % num_descs < (q1.head_idx - q1.tail_idx) % num_descs
                         => q1.info[i] = q0.info[i]]

ionic_tx_service(st, cq, entry) ==
    IF entry.color # cq.done_color
    THEN [st EXCEPT !.ret = FALSE]
    ELSE Let(LAMBDA r :
             [r EXCEPT !.ret = TRUE,
                       !.seen = Append(@, tx_service_note(
                                    st.q, r.q,
                                    SubSeq(r.cleaned, Len(st.cleaned) + 1, Len(r.cleaned)),
                                    entry, cq))],
             tx_service_loop(st, entry.comp_index))

\* the cursor of a completion queue moves past one entry: the expected
\* colour flips when the cursor wraps; consumed counts the entries passed,
\* modulo two laps
cq_advance_no_flip(cq) ==
    [cq EXCEPT !.tail_idx = (@ + 1) % cq_num_descs,
               !.consumed = (@ + 1) % (2 * cq_num_descs)]

cq_advance(cq) ==
    [cq EXCEPT !.tail_idx = (@ + 1) % cq_num_descs,
               !.done_color = IF cq.tail_idx = cq_num_descs - 1 THEN ~@ ELSE @,
               !.consumed = (@ + 1) % (2 * cq_num_descs)]

\* ionic_cq_service(cq, work_to_do, cb): an entry whose colour is not the
\* expected one ends the pass; otherwise the handler runs on the entry and
\* the cursor advances, the expected colour flipping at the wrap; entries on
\* which the handler reports no progress are not counted as work.
RECURSIVE tx_cq_service(_, _, _, _)
tx_cq_service(st0, cq0, budget, handled) ==
    Let2(LAMBDA st, cq :
         LET entry == cq.info[cq.tail_idx]
             cq1   == cq_advance(cq)
         IN IF handled >= budget \/ entry.color # cq.done_color
            THEN [st |-> st, cq |-> cq]
            ELSE Let(LAMBDA st1 :
                     tx_cq_service([st1 EXCEPT !.work_done = @ + (IF st1.ret THEN 1 ELSE 0)],
                                   cq1, budget, handled + 1),
                     ionic_tx_service(st, cq, entry)),
         st0, cq0)

\* ionic_tx_empty(q): while (head != tail) pop and clean with cq_info = NULL
RECURSIVE ionic_tx_empty(_)
ionic_tx_empty(st0) ==
    Let(LAMBDA st :
        LET q   == st.q
            i   == q.tail_idx
            arg == q.info[i].cb_arg
            r   == ionic_tx_clean(q, i, FALSE, arg, st.stopped)
        IN IF q.head_idx = q.tail_idx THEN st
           ELSE ionic_tx_empty(
                  [st EXCEPT !.q = [q EXCEPT !.tail_idx = NextIdx(i),
                                             !.info[i].cb = FALSE,
                                             !.info[i].cb_arg = NULL],
                             !.live = @ \ {r.freed},
                             !.bad_free = @ \/ (r.freed # NULL /\ r.freed \notin st.live),
                             !.desync = @ \/ st.fly = <<>> \/ Head(st.fly) # i,
                             !.fly = IF @ # <<>> /\ Head(@) = i THEN Tail(@) ELSE @,
                             !.cleaned = Append(@, i),
                             !.freed = IF r.freed # NULL THEN Append(@, r.freed) ELSE @]),
        st0)

\* ------------------------------------------------------- receive buffers
\* ALIGN(x, a)
Align(x, a) == ((x + a - 1) \div a) * a

BufIdx == 0 .. max_sg_elems

\* ionic_rx_buf_reset(buf_info)
ionic_rx_buf_reset(b) == [page |-> NULL, page_offset |-> 0, dma_addr |-> 0]

EmptyBuf == ionic_rx_buf_reset([page |-> NULL, page_offset |-> 0, dma_addr |-> 0])

\* ionic_rx_page_alloc(q, buf_info): ok says whether alloc_pages() and
\* dma_map_page() both succeeded; a page is 1 while allocated and dma_addr is
\* 1 while mapped.
ionic_rx_page_alloc(b, ok) ==
    IF ok THEN [err |-> FALSE, buf |-> [page |-> 1, page_offset |-> 0, dma_addr |-> 1]]
    ELSE [err |-> TRUE, buf |-> ionic_rx_buf_reset(b)]

\* ionic_rx_page_free(q, buf_info): unmaps and frees counts the calls of
\* dma_unmap_page() and __free_pages().
ionic_rx_page_free_no_reset(b) ==
    IF b.page = NULL THEN [buf |-> b, unmaps |-> 0, frees |-> 0]
    ELSE [buf |-> b, unmaps |-> 1, frees |-> 1]

ionic_rx_page_free(b) ==
    IF b.page = NULL THEN [buf |-> b, unmaps |-> 0, frees |-> 0]
    ELSE [buf |-> ionic_rx_buf_reset(b), unmaps |-> 1, frees |-> 1]

\* ionic_rx_buf_recycle(q, buf_info, used): local says the page is neither
\* pfmemalloc nor from another numa node.
ionic_rx_buf_recycle(b, used, local) ==
    LET off == b.page_offset + Align(used, IONIC_PAGE_SPLIT_SZ)
    IN IF ~local THEN [ok |-> FALSE, buf |-> b]
       ELSE IF off >= IONIC_PAGE_SIZE
       THEN [ok |-> FALSE, buf |-> [b EXCEPT !.page_offset = off]]
       ELSE [ok |-> TRUE, buf |-> [b EXCEPT !.page_offset = off]]

\* ionic_rx_frags(q, desc_info, cq_info): do { ... } while (i > 0) over the
\* num_sg_elems + 1 buffers of the slot; f = [bufs, len, skb, recycles, unmaps]
RECURSIVE rx_frags_loop(_, _, _, _)
rx_frags_loop(f0, bi, i, env) ==
    Let(LAMBDA f :
        LET b        == f.bufs[bi]
            frag_len == Min(f.len, IONIC_PAGE_SIZE - b.page_offset)
            rc       == ionic_rx_buf_recycle(b, frag_len, env.local)
            f1 == [f EXCEPT !.len = @ - frag_len,
                            !.recycles = @ + 1,
                            !.unmaps = IF rc.ok THEN @ ELSE @ + 1,
                            !.given = @ + 1,
                            !.bufs[bi] = IF rc.ok THEN rc.buf
                                         ELSE ionic_rx_buf_reset(rc.buf)]
        IN IF b.page = NULL THEN [f EXCEPT !.skb = FALSE]
           ELSE IF i - 1 > 0 THEN rx_frags_loop(f1, bi + 1, i - 1, env)
           ELSE f1,
        f0)

ionic_rx_frags(bufs, comp, env) ==
    LET f == [bufs |-> bufs, len |-> comp.len, skb |-> TRUE,
              recycles |-> 0, unmaps |-> 0, given |-> 0]
    IN IF env.skb_fail THEN [f EXCEPT !.skb = FALSE]
       ELSE rx_frags_loop(f, 0, comp.num_sg_elems + 1, env)

\* ionic_rx_copybreak(q, desc_info, cq_info): the frame is copied out of
\* bufs[0], which is left as it is
ionic_rx_copybreak(bufs, comp, env) ==
    [bufs |-> bufs, len |-> comp.len,
     skb |-> ~env.skb_fail /\ bufs[0].page # NULL,
     recycles |-> 0, unmaps |-> 0, given |-> 0]

\* the path ionic_rx_clean takes to build the packet
rx_build_swapped(len) == IF len <= rx_copybreak THEN "frags" ELSE "copybreak"

rx_build(len) == IF len <= rx_copybreak THEN "copybreak" ELSE "frags"

\* le16_to_cpu(comp->len) > netdev->mtu + ETH_HLEN
rx_too_long_never(len) == FALSE

rx_too_long(len) == len > RxFrameLen

\* ionic_rx_clean(q, desc_info, cq_info, cb_arg) on the buffers of one slot:
\* the result tells what was built and delivered and what was counted.
ionic_rx_clean(bufs, comp, env) ==
    LET drop(why) == [bufs |-> bufs, dropped |-> 1, built |-> "none",
                      delivered |-> "none", why |-> why, recycles |-> 0,
                      unmaps |-> 0, given |-> 0]
    IN IF comp.status # 0 THEN drop("status")
       ELSE IF env.queue_reset THEN drop("reset")
       ELSE IF rx_too_long(comp.len) THEN drop("len")
       ELSE Let(LAMBDA r :
                IF ~r.skb
                THEN [drop("skb") EXCEPT !.bufs = r.bufs, !.recycles = r.recycles,
                                         !.unmaps = r.unmaps, !.built = rx_build(comp.len)]
                ELSE [bufs |-> r.bufs, dropped |-> 0, built |-> rx_build(comp.len),
                      delivered |-> IF comp.len <= rx_copybreak
                                    THEN "napi_gro_receive" ELSE "napi_gro_frags",
                      why |-> "", recycles |-> r.recycles, unmaps |-> r.unmaps,
                      given |-> r.given],
                IF rx_build(comp.len) = "copybreak"
                THEN ionic_rx_copybreak(bufs, comp, env)
                ELSE ionic_rx_frags(bufs, comp, env))

\* ------------------------------------------------------ receive completion
\* ionic_rx_service(cq, cq_info): st = [q, log, ret, work_done]; every call
\* adds to the log what it saw and did.
rx_clean_note(bufs, r) ==
    [dropped |-> r.dropped, built |-> r.built, delivered |-> r.delivered,
     why |-> r.why, recycles |-> r.recycles, unmaps |-> r.unmaps,
     given |-> r.given, bufs_same |-> (r.bufs = bufs),
     first_kept |-> (r.bufs[0] = bufs[0] /\ bufs[0].page # NULL)]

ionic_rx_service_no_index_check(st, cq, entry, env) ==
    LET q    == st.q
        i    == q.tail_idx
        note == [ret |-> FALSE, slot |-> i, comp |-> entry,
                 done_color |-> cq.done_color,
                 empty |-> (q.tail_idx = q.head_idx),
                 tail0 |-> i, tail1 |-> i, same |-> TRUE,
                 res |-> [dropped |-> 0]]
    IN IF entry.color # cq.done_color
       THEN [st EXCEPT !.ret = FALSE, !.log = Append(@, note)]
       ELSE IF q.tail_idx = q.head_idx
       THEN [st EXCEPT !.ret = FALSE, !.log = Append(@, note)]
       ELSE Let(LAMBDA r :
                [st EXCEPT !.ret = TRUE,
                           !.q = [q EXCEPT !.tail_idx = NextIdx(i),
                                           !.info[i].bufs = r.bufs,
                                           !.info[i].cb = FALSE,
                                           !.info[i].cb_arg = NULL],
                           !.log = Append(@, [note EXCEPT !.ret = TRUE,
                                                          !.tail1 = NextIdx(i),
                                                          !.same = FALSE,
                                                          !.res = rx_clean_note(q.info[i].bufs, r)])],
                ionic_rx_clean(q.info[i].bufs, entry, env))

ionic_rx_service(st, cq, entry, env) ==
    LET q    == st.q
        i    == q.tail_idx
        note == [ret |-> FALSE, slot |-> i, comp |-> entry,
                 done_color |-> cq.done_color,
                 empty |-> (q.tail_idx = q.head_idx),
                 tail0 |-> i, tail1 |-> i, same |-> TRUE,
                 res |-> [dropped |-> 0]]
    IN IF entry.color # cq.done_color
       THEN [st EXCEPT !.ret = FALSE, !.log = Append(@, note)]
       ELSE IF q.tail_idx = q.head_idx
       THEN [st EXCEPT !.ret = FALSE, !.log = Append(@, note)]
       ELSE IF i # entry.comp_index
       THEN [st EXCEPT !.ret = FALSE, !.log = Append(@, note)]
       ELSE Let(LAMBDA r :
                [st EXCEPT !.ret = TRUE,
                           !.q = [q EXCEPT !.tail_idx = NextIdx(i),
                                           !.info[i].bufs = r.bufs,
                                           !.info[i].cb = FALSE,
                                           !.info[i].cb_arg = NULL],
                           !.log = Append(@, [note EXCEPT !.ret = TRUE,
                                                          !.tail1 = NextIdx(i),
                                                          !.same = FALSE,
                                                          !.res = rx_clean_note(q.info[i].bufs, r)])],
                ionic_rx_clean(q.info[i].bufs, entry, env))

\* ionic_cq_service(cq, work_to_do, ionic_rx_service)
RECURSIVE rx_cq_service(_, _, _, _, _)
rx_cq_service(st0, cq0, budget, handled, env) ==
    Let2(LAMBDA st, cq :
         LET entry == cq.info[cq.tail_idx]
             cq1   == cq_advance(cq)
         IN IF handled >= budget \/ entry.color # cq.done_color
            THEN [st |-> st, cq |-> cq]
            ELSE Let(LAMBDA st1 :
                     rx_cq_service([st1 EXCEPT !.work_done = @ + (IF st1.ret THEN 1 ELSE 0)],
                                   cq1, budget, handled + 1, env),
                     ionic_rx_service(st, cq, entry, env)),
         st0, cq0)

\* ---------------------------------------------------------- receive fill
\* the bytes the buffer at offset off takes of a frame with len bytes left:
\* min_t(u16, len, IONIC_PAGE_SIZE - buf_info->page_offset)
rx_frag_len(len, b) == Min(len, IONIC_PAGE_SIZE - b.page_offset)

\* "fill sg descriptors - pages[1..n]": for (j = 0; remain_len > 0 &&
\* j < q->max_sg_elems; j++); c = [q, k, failed, nfrags, remain_len, ...],
\* k counting the calls of ionic_rx_page_alloc, the env.failk-th of which fails
RECURSIVE rx_fill_sg(_, _, _)
rx_fill_sg(c0, j, env) ==
    Let(LAMBDA c :
        LET h  == c.q.head_idx
            b  == c.q.info[h].bufs[j + 1]
            k  == IF b.page = NULL THEN c.k + 1 ELSE c.k
            a  == IF b.page = NULL THEN ionic_rx_page_alloc(b, k # env.failk)
                  ELSE [err |-> FALSE, buf |-> b]
        IN IF ~(c.remain_len > 0 /\ j < max_sg_elems) THEN c
           ELSE IF a.err
           THEN [c EXCEPT !.k = k, !.failed = TRUE, !.q.info[h].bufs[j + 1] = a.buf]
           ELSE rx_fill_sg([c EXCEPT !.k = k,
                                     !.q.info[h].bufs[j + 1] = a.buf,
                                     !.remain_len = @ - rx_frag_len(@, a.buf),
                                     !.nfrags = @ + 1],
                           j + 1, env),
        c0)

\* ionic_rx_fill(q): for (i = ionic_q_space_avail(q); i; i--), each slot
\* posted with ring_dbell, and the doorbell rung after the loop
RECURSIVE rx_fill_loop(_, _, _, _)
rx_fill_loop(c0, i, env, ring_dbell) ==
    Let(LAMBDA c :
        LET h  == c.q.head_idx
            b  == c.q.info[h].bufs[0]
            k  == IF b.page = NULL THEN c.k + 1 ELSE c.k
            a  == IF b.page = NULL THEN ionic_rx_page_alloc(b, k # env.failk)
                  ELSE [err |-> FALSE, buf |-> b]
        IN IF i = 0 THEN c
           ELSE IF a.err
           THEN [c EXCEPT !.k = k, !.failed = TRUE, !.q.info[h].bufs[0] = a.buf]
           ELSE Let(LAMBDA c1 :
                    IF c1.failed THEN c1
                    ELSE rx_fill_loop(
                           [c1 EXCEPT !.q = ionic_rxq_post(
                                                 [c1.q EXCEPT !.info[h].npages = c1.nfrags],
                                                 ring_dbell, NULL),
                                      !.posts = Append(@, [slot |-> h,
                                                           dbell |-> ring_dbell,
                                                           npages |-> c1.nfrags])],
                           i - 1, env, ring_dbell),
                    rx_fill_sg([c EXCEPT !.k = k,
                                         !.q.info[h].bufs[0] = a.buf,
                                         !.remain_len = RxFrameLen - rx_frag_len(RxFrameLen, a.buf),
                                         !.nfrags = 1],
                               0, env)),
        c0)

rx_fill_as(q, env, ring_dbell, ring_on_failure) ==
    Let(LAMBDA c :
        IF c.failed /\ ~ring_on_failure THEN c
        ELSE [c EXCEPT !.q.dbell = c.q.head_idx, !.rung = @ + 1],
        rx_fill_loop([q |-> q, k |-> 0, failed |-> FALSE, nfrags |-> 0,
                      remain_len |-> 0, posts |-> <<>>, rung |-> 0,
                      called |-> TRUE],
                     ionic_q_space_avail(q), env, ring_dbell))

ionic_rx_fill(q, env) == rx_fill_as(q, env, FALSE, FALSE)

\* ionic_rx_empty(q): idx walks from tail_idx to head_idx; neither index of
\* the ring is written
RECURSIVE rx_empty_loop(_, _, _)
rx_empty_loop(q0, idx, acc0) ==
    Let2(LAMBDA q, acc :
         IF idx = q.head_idx THEN [q |-> q, acc |-> acc]
         ELSE rx_empty_loop(
                [q EXCEPT !.info[idx].bufs =
                              [j \in BufIdx |->
                                  IF j < q.info[idx].npages
                                  THEN ionic_rx_page_free(q.info[idx].bufs[j]).buf
                                  ELSE q.info[idx].bufs[j]],
                          !.info[idx].cb_arg = NULL],
                NextIdx(idx),
                [walked |-> Append(acc.walked, idx),
                 frees |-> acc.frees +
                           Cardinality({j \in BufIdx :
                               j < q.info[idx].npages
                               /\ ionic_rx_page_free(q.info[idx].bufs[j]).frees = 1})]),
         q0, acc0)

ionic_rx_empty(q) == rx_empty_loop(q, q.tail_idx, [walked |-> <<>>, frees |-> 0])

\* ------------------------------------------------------------ napi polls
\* ionic_rx_fill was not called
rx_no_fill(q) == [q |-> q, k |-> 0, failed |-> FALSE, nfrags |-> 0,
                  remain_len |-> 0, posts |-> <<>>, rung |-> 0, called |-> FALSE]

\* ionic_rx_napi(napi, budget): the completions are served, then the ring is
\* refilled if any was
ionic_rx_napi(st, cq, budget, env) ==
    Let(LAMBDA r :
        [st |-> r.st, cq |-> r.cq,
         fill |-> IF r.st.work_done # 0 THEN ionic_rx_fill(r.st.q, env)
                  ELSE rx_no_fill(r.st.q)],
        rx_cq_service(st, cq, budget, 0, env))

\* the poll with the refill moved before the receive completions are served
ionic_txrx_napi_fill_first(txst, tcq, rxst, rcq, budget, env) ==
    Let(LAMBDA t :
        Let(LAMBDA f :
            Let(LAMBDA r :
                [tx |-> t, rx |-> r,
                 fill |-> IF r.st.work_done # 0 THEN [f EXCEPT !.q = r.st.q]
                          ELSE rx_no_fill(r.st.q),
                 steps |-> <<"tx_service", "rx_service">>
                           \o (IF r.st.work_done # 0 THEN <<"rx_fill">> ELSE <<>>)],
                rx_cq_service([rxst EXCEPT !.q = f.q], rcq, budget, 0, env)),
            ionic_rx_fill(rxst.q, env)),
        tx_cq_service(txst, tcq, tx_budget, 0))

\* ionic_txrx_napi(napi, budget): the transmit completions are served with
\* tx_budget, the receive completions with budget, and the receive ring is
\* refilled if receive work was done
ionic_txrx_napi(txst, tcq, rxst, rcq, budget, env) ==
    Let(LAMBDA t :
        Let(LAMBDA r :
            [tx |-> t, rx |-> r,
             fill |-> IF r.st.work_done # 0 THEN ionic_rx_fill(r.st.q, env)
                      ELSE rx_no_fill(r.st.q),
             steps |-> <<"tx_service", "rx_service">>
                       \o (IF r.st.work_done # 0 THEN <<"rx_fill">> ELSE <<>>)],
            rx_cq_service(rxst, rcq, budget, 0, env)),
        tx_cq_service(txst, tcq, tx_budget, 0))

\* ------------------------------------------------------------------- state
VARIABLES
    txq,          \* transmit ring: head_idx, tail_idx, info[], dbell (head last rung)
    tx_stopped,   \* __netif_subqueue_stopped() of the ring's subqueue
    txcq,         \* transmit completion queue: tail_idx, done_color, info[]
    dev_tx,       \* device: next descriptor to complete, cq producer cursor/colour
    skb_live,     \* packets accepted by the ring and not yet freed
    skb_bad_free, \* a packet was freed that the ring did not own
    tx_fly,       \* slots posted and not yet completed, oldest first
    tx_desync,    \* a slot was completed that was not the oldest one in flight
    rxq,          \* receive ring: head_idx, tail_idx, info[] with bufs, dbell
    rxcq,         \* receive completion queue
    dev_rx,       \* device: next receive descriptor to fill, cq producer
    fc,           \* flow control seen step by step on two CPUs (SpecFc)
    last          \* what the most recent operation did

txvars == <<txq, tx_stopped, txcq, dev_tx, skb_live, skb_bad_free, tx_fly,
            tx_desync>>

rxvars == <<rxq, rxcq, dev_rx>>

vars == <<txq, tx_stopped, txcq, dev_tx, skb_live, skb_bad_free, tx_fly,
          tx_desync, rxq, rxcq, dev_rx, fc, last>>

ZeroDesc == [cb |-> FALSE, cb_arg |-> NULL, opcode |-> "CSUM_NONE",
             sot |-> FALSE, eot |-> FALSE, nsge |-> 0]

NoLast(op) == [op |-> op, ret |-> "", gso |-> FALSE, skb |-> NULL, len |-> 0,
               mss |-> 0, hdrlen |-> 0, nfrags |-> 0, xmit_more |-> FALSE,
               ndescs |-> 0, head0 |-> 0, space0 |-> 0, called |-> "none",
               err |-> FALSE, mapfail |-> FALSE, failk |-> 0, posts |-> <<>>,
               maps |-> {}, unmaps |-> {}, touched |-> <<>>, clean_freed |-> {},
               skb_freed |-> FALSE, seen |-> <<>>, rx |-> <<>>, work_done |-> 0,
               budget |-> 0, fill |-> [called |-> FALSE], steps |-> <<>>,
               rhead0 |-> 0, rtail0 |-> 0, walked |-> <<>>, frees |-> 0]

RxZeroDesc == [cb |-> FALSE, cb_arg |-> NULL, npages |-> 0,
               bufs |-> [j \in BufIdx |-> EmptyBuf]]

RxZeroComp == [color |-> FALSE, comp_index |-> 0, status |-> 0, len |-> 0,
               num_sg_elems |-> 0]

InitRx ==
    /\ rxq = [head_idx |-> 0, tail_idx |-> 0, dbell |-> 0,
              info |-> [i \in Slots |-> RxZeroDesc]]
    /\ rxcq = [tail_idx |-> 0, done_color |-> TRUE, consumed |-> 0,
               info |-> [i \in 0 .. cq_num_descs - 1 |-> RxZeroComp]]
    /\ dev_rx = [q_idx |-> 0, cq_idx |-> 0, color |-> TRUE]

Idle == NoLast("idle")

\* The flow-control state of a transmit queue between sends: ring empty, the
\* subqueue running, no CPU inside ionic_start_xmit or ionic_tx_service.
FcIdle == [head |-> 0, tail |-> 0, vis_tail |-> 0, stopped |-> FALSE,
           pk |-> <<>>, xpc |-> "idle", site |-> "none", need |-> 0,
           ndescs |-> 0, ret |-> 0, refull |-> FALSE, raced |-> FALSE,
           cpc |-> "idle", cdone |-> 0]

Init ==
    /\ txq = [head_idx |-> 0, tail_idx |-> 0, dbell |-> 0,
              info |-> [i \in Slots |-> ZeroDesc]]
    /\ tx_stopped = FALSE
    /\ txcq = [tail_idx |-> 0, done_color |-> TRUE, consumed |-> 0,
               info |-> [i \in 0 .. cq_num_descs - 1 |->
                            [color |-> FALSE, comp_index |-> 0]]]
    /\ dev_tx = [q_idx |-> 0, cq_idx |-> 0, color |-> TRUE]
    /\ skb_live = {}
    /\ skb_bad_free = FALSE
    /\ tx_fly = <<>>
    /\ tx_desync = FALSE
    /\ InitRx
    /\ last = Idle
    /\ fc = FcIdle

\* ------------------------------------------------------------------ inputs
SeqsUpTo(S, n) == UNION {[1 .. m -> S] : m \in 0 .. n}

\* what the environment answers during one send: the interface is down; or
\* skb_linearize() / skb_cow_head() fails; or the send runs with its failk-th
\* DMA mapping failing (0: none fails)
EnvOf(s) ==
    LET e0 == [xmit_more |-> FALSE, zero_is_err |-> TRUE, up |-> TRUE,
               lin_fail |-> FALSE, cow_fail |-> FALSE, failk |-> 0]
        nmaps == IF s.gso THEN s.headlen + SumSeq(s.frags)
                 ELSE IF Len(s.frags) > max_sg_elems THEN 1
                 ELSE 1 + Len(s.frags)
    IN {[e0 EXCEPT !.up = FALSE]}
       \cup (IF ~s.gso /\ Len(s.frags) > max_sg_elems
             THEN {[e0 EXCEPT !.lin_fail = TRUE]} ELSE {})
       \cup (IF s.gso THEN {[e0 EXCEPT !.cow_fail = TRUE]} ELSE {})
       \cup {[e0 EXCEPT !.xmit_more = m] : m \in BOOLEAN}
       \cup {[e0 EXCEPT !.xmit_more = m, !.failk = k, !.zero_is_err = z] :
                m \in BOOLEAN, k \in 1 .. nmaps, z \in BOOLEAN}

\* every packet shape within the bounds; a TSO packet carries payload
SkbAll ==
    {s \in [gso : BOOLEAN, csum : BOOLEAN, headlen : 1 .. MaxHeadLen,
            frags : SeqsUpTo(1 .. MaxFragLen, MaxFrags),
            mss : 0 .. MaxMss, hdrlen : 0 .. MaxHdrLen] :
        IF s.gso
        THEN /\ s.mss >= 1 /\ s.hdrlen >= 1 /\ ~s.csum
             /\ s.headlen >= s.hdrlen
             /\ s.headlen + SumSeq(s.frags) > s.hdrlen
        ELSE s.mss = 0 /\ s.hdrlen = 0}

\* the whole-ring specification sends a one-descriptor packet and a TSO
\* packet of two descriptors (header in the linear region, two fragments),
\* with every mapping succeeding or the last one failing
SkbMain ==
    {s \in SkbAll :
        /\ ~s.csum
        /\ s.headlen = 1
        /\ IF s.gso THEN s.mss = 2 /\ s.hdrlen = 1 /\ s.frags = <<2, 2>>
           ELSE s.frags = <<>>}

EnvMain(s) ==
    {e \in EnvOf(s) : e.up /\ ~e.cow_fail /\ e.zero_is_err /\ ~e.xmit_more
                      /\ e.failk \in {0, IF s.gso THEN 3 ELSE 1}}

Packet(s, e) ==
    [gso |-> s.gso, csum |-> s.csum, headlen |-> s.headlen, frags |-> s.frags,
     mss |-> s.mss, hdrlen |-> s.hdrlen, skb |-> NULL,
     xmit_more |-> e.xmit_more, zero_is_err |-> e.zero_is_err, up |-> e.up,
     lin_fail |-> e.lin_fail, cow_fail |-> e.cow_fail, failk |-> e.failk]

\* ----------------------------------------------------------------- actions
\* slots posted and not yet popped, by the ring's own indices
InFlight(q) == (q.head_idx - q.tail_idx) % num_descs

InFlightSlots(q) == {(q.tail_idx + n) % num_descs : n \in 0 .. InFlight(q) - 1}

\* The hardware descriptor of a slot that is not in flight, and a completion
\* entry the driver has consumed, are dead: the driver writes them again
\* before it reads them. The state keeps them as zeroes.
Forget(q) ==
    [q EXCEPT !.info = [i \in Slots |->
        IF i \in InFlightSlots(q) THEN q.info[i]
        ELSE [ZeroDesc EXCEPT !.cb = q.info[i].cb, !.cb_arg = q.info[i].cb_arg]]]

ForgetCq(cq) ==
    [cq EXCEPT !.info = [i \in 0 .. cq_num_descs - 1 |->
        IF cq.info[i].color = (IF i >= cq.tail_idx THEN cq.done_color
                               ELSE ~cq.done_color)
        THEN cq.info[i]
        ELSE [cq.info[i] EXCEPT !.comp_index = 0]]]

\* the stack calls ndo_start_xmit with a packet drawn from S; the stop flag
\* is advisory, a packet already dequeued is still sent to a stopped subqueue
Xmit(s, e) ==
    \E r \in {ionic_start_xmit(txq, tx_stopped, Packet(s, e))} :
        LET accepted == r.last.called # "none" /\ ~r.last.err
        IN /\ txq' = Forget(r.q)
           /\ tx_stopped' = r.stopped
           /\ last' = r.last
           /\ skb_live' = IF accepted THEN skb_live \cup {r.last.skb} ELSE skb_live
           /\ tx_fly' = IF accepted
                        THEN tx_fly \o [i \in 1 .. Len(r.last.posts) |-> r.last.posts[i].slot]
                        ELSE tx_fly
           /\ UNCHANGED <<txcq, dev_tx, skb_bad_free, tx_desync>>
           /\ UNCHANGED <<rxvars, fc>>

StartXmit == \E s \in SkbMain : \E e \in EnvMain(s) : Xmit(s, e)

\* the device completes descriptors it was told of by the doorbell, in order,
\* one completion entry closing every descriptor up to comp_index
DevTxComplete ==
    /\ dev_tx.q_idx # txq.dbell
    /\ ~(dev_tx.cq_idx = txcq.tail_idx
          /\ txcq.info[txcq.tail_idx].color = txcq.done_color)
    /\ \E n \in 1 .. num_descs - 1 :
         /\ n <= (txq.dbell - dev_tx.q_idx) % num_descs
         /\ LET k == (dev_tx.q_idx + n - 1) % num_descs
            IN /\ txcq' = [txcq EXCEPT !.info[dev_tx.cq_idx] =
                                 [color |-> dev_tx.color, comp_index |-> k]]
               /\ dev_tx' = [q_idx |-> NextIdx(k),
                             cq_idx |-> (dev_tx.cq_idx + 1) % cq_num_descs,
                             color |-> IF dev_tx.cq_idx = cq_num_descs - 1
                                       THEN ~dev_tx.color ELSE dev_tx.color]
    /\ last' = Idle
    /\ UNCHANGED <<txq, tx_stopped, skb_live, skb_bad_free, tx_fly, tx_desync>>
    /\ UNCHANGED <<rxvars, fc>>

TxState == [q |-> txq, stopped |-> tx_stopped, live |-> skb_live,
            bad_free |-> skb_bad_free, fly |-> tx_fly, desync |-> tx_desync,
            cleaned |-> <<>>, freed |-> <<>>, ret |-> FALSE, work_done |-> 0,
            seen |-> <<>>]

TxApply(st) ==
    /\ txq' = Forget(st.q)
    /\ tx_stopped' = st.stopped
    /\ skb_live' = st.live
    /\ skb_bad_free' = st.bad_free
    /\ tx_fly' = st.fly
    /\ tx_desync' = st.desync

TxLast(st, op) == [NoLast(op) EXCEPT !.head0 = txq.head_idx,
                                     !.space0 = InFlight(txq),
                                     !.touched = st.cleaned,
                                     !.clean_freed = {st.freed[i] : i \in 1 .. Len(st.freed)},
                                     !.seen = st.seen]

\* ionic_tx_napi(napi, budget)
TxNapi ==
    \E budget \in 1 .. MaxBudget :
        \E r \in {tx_cq_service(TxState, txcq, budget, 0)} :
           /\ TxApply(r.st)
           /\ last' = TxLast(r.st, "tx_napi")
           /\ txcq' = ForgetCq(r.cq)
           /\ UNCHANGED dev_tx
           /\ UNCHANGED <<rxvars, fc>>

\* ionic_tx_flush(cq)
TxFlush ==
    \E r \in {tx_cq_service(TxState, txcq, cq_num_descs, 0)} :
       /\ TxApply(r.st)
       /\ last' = TxLast(r.st, "tx_flush")
       /\ txcq' = ForgetCq(r.cq)
       /\ UNCHANGED dev_tx
       /\ UNCHANGED <<rxvars, fc>>

\* ionic_tx_empty(q), called with the queue disabled: the device has dropped
\* what it had not completed, and starts again from the ring's head
TxEmpty ==
    /\ \E st \in {ionic_tx_empty(TxState)} :
          /\ TxApply([st EXCEPT !.q.dbell = txq.head_idx])
          /\ last' = TxLast(st, "tx_empty")
    /\ dev_tx' = [dev_tx EXCEPT !.q_idx = txq.head_idx]
    /\ UNCHANGED txcq
    /\ UNCHANGED <<rxvars, fc>>

Next ==
    \/ StartXmit
    \/ DevTxComplete
    \/ TxNapi
    \/ TxFlush
    \/ TxEmpty

Spec == Init /\ [][Next]_vars

\* --------------------------------------------------- one send, every packet
\* A ring holding k one-descriptor packets, as k sends from the initial state
\* leave it, is offered one packet of any shape under any environment.
RECURSIVE Filled(_)
Filled(k) ==
    IF k = 0
    THEN [q |-> [head_idx |-> 0, tail_idx |-> 0, dbell |-> 0,
                 info |-> [i \in Slots |-> ZeroDesc]],
          stopped |-> FALSE]
    ELSE LET s == CHOOSE x \in SkbMain : ~x.gso
             e == CHOOSE x \in EnvMain(s) : x.failk = 0
         IN Let(LAMBDA f :
                Let(LAMBDA r : [q |-> Forget(r.q), stopped |-> r.stopped],
                    ionic_start_xmit(f.q, f.stopped, Packet(s, e))),
                Filled(k - 1))

InitXmit ==
    \E k \in 0 .. num_descs - 1 :
        /\ txq = Filled(k).q
        /\ tx_stopped = Filled(k).stopped
        /\ txcq = [tail_idx |-> 0, done_color |-> TRUE, consumed |-> 0,
                   info |-> [i \in 0 .. cq_num_descs - 1 |->
                                [color |-> FALSE, comp_index |-> 0]]]
        /\ dev_tx = [q_idx |-> 0, cq_idx |-> 0, color |-> TRUE]
        /\ skb_live = 1 .. k
        /\ skb_bad_free = FALSE
        /\ tx_fly = [i \in 1 .. k |-> i - 1]
        /\ tx_desync = FALSE
        /\ InitRx
        /\ last = Idle
        /\ fc = FcIdle

XmitOnce == last.op = "idle" /\ \E s \in SkbAll : \E e \in EnvOf(s) : Xmit(s, e)

NextXmit == XmitOnce

SpecXmit == InitXmit /\ [][NextXmit]_vars

\* ------------------------------------------------------------ receive side
RxMaxFailK == 2

\* what the environment answers during one receive operation: the page of a
\* buffer is on another node (no reuse); the skb allocation fails; the
\* interface is resetting its queues; the failk-th page allocation fails
RxEnvs ==
    LET e0 == [local |-> TRUE, skb_fail |-> FALSE, queue_reset |-> FALSE,
               failk |-> 0]
    IN {e0, [e0 EXCEPT !.local = FALSE], [e0 EXCEPT !.skb_fail = TRUE],
        [e0 EXCEPT !.queue_reset = TRUE]}
       \cup {[e0 EXCEPT !.failk = k] : k \in 1 .. RxMaxFailK}

\* a slot that is not in flight keeps its buffers and nothing else a later
\* post does not write again; a consumed completion entry is dead
ForgetRx(q) ==
    [q EXCEPT !.info = [i \in Slots |->
        IF i \in InFlightSlots(q) THEN q.info[i]
        ELSE [q.info[i] EXCEPT !.npages = 0]]]

ForgetRxCq(cq) ==
    [cq EXCEPT !.info = [i \in 0 .. cq_num_descs - 1 |->
        IF cq.info[i].color = (IF i >= cq.tail_idx THEN cq.done_color
                               ELSE ~cq.done_color)
        THEN cq.info[i]
        ELSE [RxZeroComp EXCEPT !.color = cq.info[i].color]]]

\* the scatter-gather elements the device used for len bytes in the slot
RECURSIVE DevNumSg(_, _, _)
DevNumSg(d, len, j) ==
    IF j + 1 >= d.npages \/ len <= rx_frag_len(len, d.bufs[j]) THEN j
    ELSE DevNumSg(d, len - rx_frag_len(len, d.bufs[j]), j + 1)

RxState == [q |-> rxq, log |-> <<>>, ret |-> FALSE, work_done |-> 0]

RxFillNote(f) == [called |-> f.called, failed |-> f.failed, posts |-> f.posts,
                  rung |-> f.rung, head0 |-> rxq.head_idx,
                  head1 |-> f.q.head_idx, dbell1 |-> f.q.dbell, allocs |-> f.k]

RxLast(op) == [NoLast(op) EXCEPT !.rhead0 = rxq.head_idx,
                                 !.rtail0 = rxq.tail_idx]

\* ionic_rx_fill(q)
RxFill ==
    /\ \E env \in RxEnvs :
         \E f \in {ionic_rx_fill(rxq, env)} :
            /\ rxq' = ForgetRx(f.q)
            /\ last' = [RxLast("rx_fill") EXCEPT !.fill = RxFillNote(f)]
    /\ UNCHANGED <<rxcq, dev_rx>>
    /\ UNCHANGED <<txvars, fc>>

\* what a receive completion reports: an error status, or a frame of len bytes
RxComps == {[status |-> 1, len |-> 0]}
           \cup {[status |-> 0, len |-> n] : n \in 1 .. MaxRxLen}

\* the device fills the next descriptor it was told of by the doorbell and
\* writes its completion: a frame of len bytes, or an error status
DevRxWrite(c) ==
    /\ dev_rx.q_idx # rxq.dbell
    /\ ~(dev_rx.cq_idx = rxcq.tail_idx
          /\ rxcq.info[rxcq.tail_idx].color = rxcq.done_color)
    /\ rxcq' = [rxcq EXCEPT !.info[dev_rx.cq_idx] =
                   [color |-> dev_rx.color, comp_index |-> dev_rx.q_idx,
                    status |-> c.status, len |-> c.len,
                    num_sg_elems |-> DevNumSg(rxq.info[dev_rx.q_idx], c.len, 0)]]
    /\ dev_rx' = [q_idx |-> NextIdx(dev_rx.q_idx),
                  cq_idx |-> (dev_rx.cq_idx + 1) % cq_num_descs,
                  color |-> IF dev_rx.cq_idx = cq_num_descs - 1
                            THEN ~dev_rx.color ELSE dev_rx.color]
    /\ last' = Idle
    /\ UNCHANGED rxq
    /\ UNCHANGED <<txvars, fc>>

DevRxComplete == \E c \in RxComps : DevRxWrite(c)

\* ionic_rx_napi(napi, budget)
RxNapiOp(budget, env) ==
    /\ \E r \in {ionic_rx_napi(RxState, rxcq, budget, env)} :
          /\ rxq' = ForgetRx(r.fill.q)
          /\ rxcq' = ForgetRxCq(r.cq)
          /\ last' = [RxLast("rx_napi") EXCEPT !.rx = r.st.log,
                                               !.work_done = r.st.work_done,
                                               !.budget = budget,
                                               !.fill = RxFillNote(r.fill)]
    /\ UNCHANGED dev_rx
    /\ UNCHANGED <<txvars, fc>>

RxNapi == \E budget \in 1 .. MaxBudget : \E env \in RxEnvs : RxNapiOp(budget, env)

\* ionic_rx_empty(q), called with the queue disabled: the device has dropped
\* what it had not filled, and starts again from the ring's head
RxEmpty ==
    /\ \E r \in {ionic_rx_empty(rxq)} :
          /\ rxq' = [r.q EXCEPT !.dbell = rxq.head_idx]
          /\ last' = [RxLast("rx_empty") EXCEPT !.walked = r.acc.walked,
                                                  !.frees = r.acc.frees]
    /\ dev_rx' = [dev_rx EXCEPT !.q_idx = rxq.head_idx]
    /\ UNCHANGED rxcq
    /\ UNCHANGED <<txvars, fc>>

NextRx ==
    \/ RxFill
    \/ DevRxComplete
    \/ RxNapi
    \/ RxEmpty

SpecRx == Init /\ [][NextRx]_vars

\* ------------------------------------------------------- the combined poll
\* One interrupt serves both rings. The stack sends one-descriptor packets one
\* at a time, the receive ring starts as ionic_rx_fill leaves it at open, and
\* the device reports frames of every accepted length.
InitTxRx ==
    /\ txq = [head_idx |-> 0, tail_idx |-> 0, dbell |-> 0,
              info |-> [i \in Slots |-> ZeroDesc]]
    /\ tx_stopped = FALSE
    /\ txcq = [tail_idx |-> 0, done_color |-> TRUE, consumed |-> 0,
               info |-> [i \in 0 .. cq_num_descs - 1 |->
                            [color |-> FALSE, comp_index |-> 0]]]
    /\ dev_tx = [q_idx |-> 0, cq_idx |-> 0, color |-> TRUE]
    /\ skb_live = {}
    /\ skb_bad_free = FALSE
    /\ tx_fly = <<>>
    /\ tx_desync = FALSE
    /\ rxq = ForgetRx(ionic_rx_fill(
                 [head_idx |-> 0, tail_idx |-> 0, dbell |-> 0,
                  info |-> [i \in Slots |-> RxZeroDesc]],
                 CHOOSE e \in RxEnvs : e.local /\ ~e.skb_fail /\ ~e.queue_reset
                                       /\ e.failk = 0).q)
    /\ rxcq = [tail_idx |-> 0, done_color |-> TRUE, consumed |-> 0,
               info |-> [i \in 0 .. cq_num_descs - 1 |-> RxZeroComp]]
    /\ dev_rx = [q_idx |-> 0, cq_idx |-> 0, color |-> TRUE]
    /\ last = Idle
    /\ fc = FcIdle

XmitOne ==
    /\ txq.head_idx = txq.tail_idx
    /\ \E s \in SkbMain : \E e \in EnvMain(s) :
          ~s.gso /\ e.failk = 0 /\ Xmit(s, e)

DevRxFrame == \E c \in RxComps : c.status = 0 /\ c.len <= RxFrameLen /\ DevRxWrite(c)

\* ionic_txrx_napi(napi, budget)
TxRxNapi ==
    /\ \E budget \in 1 .. MaxBudget :
         \E env \in {e \in RxEnvs : e.local /\ ~e.skb_fail /\ ~e.queue_reset
                                     /\ e.failk = 0} :
         \E r \in {ionic_txrx_napi(TxState, txcq, RxState, rxcq, budget, env)} :
            /\ TxApply(r.tx.st)
            /\ txcq' = ForgetCq(r.tx.cq)
            /\ rxq' = ForgetRx(r.fill.q)
            /\ rxcq' = ForgetRxCq(r.rx.cq)
            /\ last' = [RxLast("txrx_napi") EXCEPT !.seen = r.tx.st.seen,
                                                   !.touched = r.tx.st.cleaned,
                                                   !.rx = r.rx.st.log,
                                                   !.work_done = r.rx.st.work_done,
                                                   !.budget = budget,
                                                   !.fill = RxFillNote(r.fill),
                                                   !.steps = r.steps]
    /\ UNCHANGED <<dev_tx, dev_rx, fc>>

NextTxRx ==
    \/ XmitOne
    \/ DevTxComplete
    \/ DevRxFrame
    \/ TxRxNapi

SpecTxRx == InitTxRx /\ [][NextTxRx]_vars

\* ------------------------------------------------------------- stop and wake
\* The stack honours the stop flag: it sends, with or without more packets
\* announced, only while the subqueue is not stopped. The device completes
\* what the doorbell told it of and the poll runs; both are scheduled fairly.
XmitLive ==
    /\ ~tx_stopped
    /\ \E s \in SkbMain : \E e \in EnvOf(s) :
          /\ e.up /\ ~e.lin_fail /\ ~e.cow_fail /\ e.failk = 0
          /\ Xmit(s, e)

NextLive ==
    \/ XmitLive
    \/ DevTxComplete
    \/ TxNapi

SpecLive == Init /\ [][NextLive]_vars /\ WF_vars(DevTxComplete) /\ WF_vars(TxNapi)

\* ------------------------------------------------------- refill after failure
\* The receive ring as ionic_rx_fill left it at open, when every page
\* allocation succeeded (k = 0) or the k-th failed. From then on allocation
\* always succeeds; the device fills the descriptors it was told of and the
\* poll runs, both scheduled fairly.
InitRxLive ==
    /\ txq = [head_idx |-> 0, tail_idx |-> 0, dbell |-> 0,
              info |-> [i \in Slots |-> ZeroDesc]]
    /\ tx_stopped = FALSE
    /\ txcq = [tail_idx |-> 0, done_color |-> TRUE, consumed |-> 0,
               info |-> [i \in 0 .. cq_num_descs - 1 |->
                            [color |-> FALSE, comp_index |-> 0]]]
    /\ dev_tx = [q_idx |-> 0, cq_idx |-> 0, color |-> TRUE]
    /\ skb_live = {}
    /\ skb_bad_free = FALSE
    /\ tx_fly = <<>>
    /\ tx_desync = FALSE
    /\ \E env \in RxEnvs :
          /\ env.local /\ ~env.skb_fail /\ ~env.queue_reset
          /\ rxq = ForgetRx(ionic_rx_fill(
                       [head_idx |-> 0, tail_idx |-> 0, dbell |-> 0,
                        info |-> [i \in Slots |-> RxZeroDesc]], env).q)
    /\ rxcq = [tail_idx |-> 0, done_color |-> TRUE, consumed |-> 0,
               info |-> [i \in 0 .. cq_num_descs - 1 |-> RxZeroComp]]
    /\ dev_rx = [q_idx |-> 0, cq_idx |-> 0, color |-> TRUE]
    /\ last = Idle
    /\ fc = FcIdle

RxNapiAllocOk ==
    \E budget \in 1 .. MaxBudget : \E env \in RxEnvs :
        env.failk = 0 /\ RxNapiOp(budget, env)

NextRxLive ==
    \/ DevRxComplete
    \/ RxNapiAllocOk

SpecRxLive ==
    InitRxLive /\ [][NextRxLive]_vars
    /\ WF_vars(DevRxComplete) /\ WF_vars(RxNapiAllocOk)

\* ------------------------------------------- flow control, step by step
\* ionic_start_xmit runs on the sending CPU and ionic_tx_service on the CPU
\* of the queue's napi poll, with no lock in common. q->tail_idx is written by
\* the poll with a plain store and read by the sender with a plain load: a
\* data race. The store is followed by no barrier before the poll reads the
\* stopped bit (lines 766-770, then 737-739), and the sender's smp_rmb (line
\* 1293) orders loads only, so the store may become visible to the sender
\* later than the poll's own next loads are performed. fc.tail is the value
\* the poll's CPU holds, fc.vis_tail the value the sender's loads return, and
\* FcFlush makes one pending store visible. The stopped bit is set and cleared
\* with atomic bit operations and is taken as visible at once.
FcDescs == 6            \* descriptors of the ring of SpecFc
FcMaxNeed == 2          \* most descriptors one packet of SpecFc needs

\* ionic_q_has_space(q, want) on a ring of FcDescs with the tail the reader sees
fc_q_has_space(head, tail, want) == (tail - head - 1) % FcDescs >= want

\* ionic_maybe_stop_tx returned to ionic_start_xmit: the first call's result
\* decides between NETDEV_TX_BUSY and the send, the last call's is dropped.
fc_return(f, stopped) ==
    IF f.site = "pre" /\ stopped = 0
    THEN [f EXCEPT !.ret = stopped, !.xpc = "post"]
    ELSE [f EXCEPT !.ret = stopped, !.xpc = "idle"]

\* The stack hands a packet of n descriptors to ionic_start_xmit, which it
\* does only while the subqueue is not stopped.
FcXmitBegin ==
    /\ fc.xpc = "idle" /\ ~fc.stopped
    /\ \E n \in 1 .. FcMaxNeed :
          fc' = [fc EXCEPT !.xpc = "check", !.site = "pre", !.need = n,
                           !.ndescs = n, !.ret = 0, !.refull = FALSE]
    /\ UNCHANGED <<txvars, rxvars, last>>

\* if (!ionic_q_has_space(q, ndescs))
FcCheck ==
    /\ fc.xpc = "check"
    /\ fc' = IF fc_q_has_space(fc.head, fc.vis_tail, fc.need)
             THEN fc_return(fc, 0)
             ELSE [fc EXCEPT !.xpc = "stop",
                             !.raced = @ \/ (fc.vis_tail # fc.tail)]
    /\ UNCHANGED <<txvars, rxvars, last>>

\* netif_stop_subqueue(); stopped = 1;
FcStop ==
    /\ fc.xpc = "stop"
    /\ fc' = [fc EXCEPT !.stopped = TRUE, !.ret = 1, !.xpc = "recheck"]
    /\ UNCHANGED <<txvars, rxvars, last>>

\* smp_rmb(); if (ionic_q_has_space(q, ndescs))
FcRecheck ==
    /\ fc.xpc = "recheck"
    /\ fc' = IF fc_q_has_space(fc.head, fc.vis_tail, fc.need)
             THEN [fc EXCEPT !.xpc = "wake"]
             ELSE fc_return([fc EXCEPT !.refull = TRUE,
                                       !.raced = @ \/ (fc.vis_tail # fc.tail)], 1)
    /\ UNCHANGED <<txvars, rxvars, last>>

\* netif_wake_subqueue(); stopped = 0;
FcWake ==
    /\ fc.xpc = "wake"
    /\ fc' = fc_return([fc EXCEPT !.stopped = FALSE], 0)
    /\ UNCHANGED <<txvars, rxvars, last>>

\* ionic_tx / ionic_tx_tso post the packet's descriptors, the last one with
\* the packet as cb_arg and the doorbell; then ionic_maybe_stop_tx(q, 4).
FcPost ==
    /\ fc.xpc = "post"
    /\ fc' = [fc EXCEPT !.head = (@ + fc.ndescs) % FcDescs,
                        !.pk = Append(@, fc.ndescs),
                        !.xpc = "check", !.site = "final",
                        !.need = TxStopThresh]
    /\ UNCHANGED <<txvars, rxvars, last>>

\* ionic_tx_service, one turn of its do-while for the oldest packet in
\* flight: q->tail_idx = (q->tail_idx + 1) & (q->num_descs - 1).
FcAdvance ==
    /\ fc.cpc \in {"idle", "next"}
    /\ fc.pk # <<>>
    /\ fc' = [fc EXCEPT !.tail = (@ + 1) % FcDescs, !.cdone = @ + 1,
                        !.cpc = "clean"]
    /\ UNCHANGED <<txvars, rxvars, last>>

\* ionic_tx_clean of the slot just taken: only the packet's last descriptor
\* has a cb_arg, and for it the stopped bit is read; without a cb_arg the loop
\* goes on to the next slot.
FcClean ==
    /\ fc.cpc = "clean"
    /\ fc' = IF fc.cdone < Head(fc.pk)
             THEN [fc EXCEPT !.cpc = "next"]
             ELSE IF fc.stopped
             THEN [fc EXCEPT !.cpc = "wake"]
             ELSE [fc EXCEPT !.cpc = "idle", !.cdone = 0, !.pk = Tail(@)]
    /\ UNCHANGED <<txvars, rxvars, last>>

\* netif_wake_subqueue() of ionic_tx_clean
FcCleanWake ==
    /\ fc.cpc = "wake"
    /\ fc' = [fc EXCEPT !.stopped = FALSE, !.cpc = "idle", !.cdone = 0,
                        !.pk = Tail(@)]
    /\ UNCHANGED <<txvars, rxvars, last>>

\* The oldest pending store of tail_idx becomes visible to the sending CPU.
FcFlush ==
    /\ fc.vis_tail # fc.tail
    /\ fc' = [fc EXCEPT !.vis_tail = (@ + 1) % FcDescs]
    /\ UNCHANGED <<txvars, rxvars, last>>

NextFc ==
    \/ FcXmitBegin
    \/ FcCheck
    \/ FcStop
    \/ FcRecheck
    \/ FcWake
    \/ FcPost
    \/ FcAdvance
    \/ FcClean
    \/ FcCleanWake
    \/ FcFlush

SpecFc == Init /\ [][NextFc]_vars

\* ================================================================== claims
Ceil(a, b) == (a + b - 1) \div b

Sent == last.op = "xmit"

\* a send that ionic_tx_tso / ionic_tx encoded without reporting an error
Encoded == Sent /\ last.called # "none" /\ ~last.err

PostSlots == [i \in 1 .. Len(last.posts) |-> last.posts[i].slot]

PostMaps == UNION {{<<last.posts[i].slot, j>> : j \in 0 .. last.posts[i].nsge} :
                     i \in 1 .. Len(last.posts)}

RECURSIVE PostBytes(_)
PostBytes(posts) ==
    IF posts = <<>> THEN 0
    ELSE Head(posts).len + SumSeq(Head(posts).sglens) + PostBytes(Tail(posts))

\* C1: after any sequence of posts, completion processing, TSO rollback and
\* quiesce, the slots posted and not completed never exceed num_descs - 1:
\* head_idx never advances onto tail_idx and tail_idx never advances past
\* head_idx (every slot popped is the oldest one in flight).
C1_InFlightBounded ==
    /\ Len(tx_fly) <= num_descs - 1
    /\ Len(tx_fly) = InFlight(txq)
    /\ ~tx_desync

C3_BusyLeavesRing ==
    (Sent /\ last.ndescs > last.space0) =>
        /\ last.ret = "BUSY"
        /\ tx_stopped
        /\ last.called = "none"
        /\ last.posts = <<>>
        /\ txq.head_idx = last.head0
        /\ skb_live = 1 .. last.head0
        /\ ~last.skb_freed

C3_Witness ==
    /\ Sent /\ last.gso
    /\ last.space0 = 2 /\ last.ndescs = 3
    /\ last.ret = "BUSY" /\ tx_stopped

\* C4: when the mapping of the k-th scatter-gather element of a non-segmented
\* send fails, every mapping made for the packet before it is unmapped,
\* head_idx is what it was before the send and the packet is not freed.
C4_FragFailureUndone ==
    (Sent /\ last.called = "tx" /\ last.mapfail /\ last.failk >= 2) =>
        /\ last.maps \subseteq last.unmaps
        /\ txq.head_idx = last.head0
        /\ ~last.skb_freed

\* C5: when a mapping fails during a segmented send, every descriptor posted
\* for the packet is cleaned (unmapped, the packet not freed by the cleanup),
\* exactly the slots posted since the send began are touched, and head_idx is
\* what it was before the send.
C5_TsoFailureRolledBack ==
    (Sent /\ last.called = "tso" /\ last.mapfail) =>
        /\ last.touched = PostSlots
        /\ PostMaps \subseteq last.unmaps
        /\ last.clean_freed = {}
        /\ txq.head_idx = last.head0

\* C6: the descriptors of a successfully encoded segmented packet carry the
\* segmentation-start flag on the first descriptor only and the
\* segmentation-end flag on the last descriptor only.
C6_OneSotOneEot ==
    (Encoded /\ last.called = "tso") =>
        /\ last.posts # <<>>
        /\ \A i \in 1 .. Len(last.posts) :
             /\ txq.info[last.posts[i].slot].opcode = "TSO"
             /\ txq.info[last.posts[i].slot].sot = (i = 1)
             /\ txq.info[last.posts[i].slot].eot = (i = Len(last.posts))

C6_Witness ==
    /\ Encoded /\ last.called = "tso"
    /\ Len(last.posts) = 3
    /\ last.nfrags >= 2
    /\ txq.info[last.posts[1].slot].sot
    /\ ~txq.info[last.posts[2].slot].sot /\ ~txq.info[last.posts[2].slot].eot
    /\ txq.info[last.posts[3].slot].eot

\* C7: a segmented packet of length L, header length H and segment size S is
\* encoded into ceil((L - H) / S) descriptors, and the lengths of the
\* descriptors and scatter-gather elements posted for it sum to L.
C7_SegmentsAndBytes ==
    (Encoded /\ last.called = "tso") =>
        /\ Len(last.posts) = Ceil(last.len - last.hdrlen, last.mss)
        /\ PostBytes(last.posts) = last.len

C7_Witness ==
    /\ Encoded /\ last.called = "tso"
    /\ last.len = 8 /\ last.hdrlen = 1 /\ last.mss = 3
    /\ Len(last.posts) = 3
    /\ \E i \in 1 .. 3 : last.posts[i].nsge >= 1

C9_SkbOnLastFreedOnce ==
    /\ Encoded =>
         \A i \in 1 .. Len(last.posts) :
            txq.info[last.posts[i].slot].cb_arg =
                (IF i = Len(last.posts) THEN last.skb ELSE NULL)
    /\ ~skb_bad_free
    /\ \A s \in skb_live :
          Cardinality({i \in Slots : txq.info[i].cb_arg = s}) = 1
    /\ \A i \in Slots : txq.info[i].cb_arg # NULL => txq.info[i].cb_arg \in skb_live

C9_Witness ==
    /\ last.op \in {"tx_napi", "tx_flush", "tx_empty"}
    /\ Len(last.touched) = 2
    /\ Cardinality(last.clean_freed) = 1
    /\ last.clean_freed \cap skb_live = {}
    /\ ~tx_desync

\* C10: during a send the doorbell is rung only by the post of the packet's
\* final descriptor, and only when xmit_more is false.
C10_DoorbellOnFinalOnly ==
    Sent =>
        /\ \A i \in 1 .. Len(last.posts) :
             last.posts[i].dbell =>
                /\ i = Len(last.posts)
                /\ ~last.xmit_more
                /\ last.called = "tso" => last.posts[i].eot
        /\ txq.dbell # last.head0 =>
             /\ Encoded /\ ~last.xmit_more
             /\ txq.dbell = txq.head_idx

C10_Witness ==
    /\ Encoded /\ last.called = "tso"
    /\ Len(last.posts) >= 2
    /\ ~last.posts[1].dbell
    /\ last.posts[Len(last.posts)].dbell
    /\ txq.dbell = txq.head_idx

\* C11: a completion queue of M entries expects the initial colour until M
\* entries have been consumed, the other colour for the next M, and so on
\* (one flip per M consumed entries), and every entry that ionic_tx_service or
\* ionic_rx_service processed carried the colour expected at that moment.
C11_ColourAlternation ==
    /\ \A cq \in {[tail_idx |-> txcq.tail_idx, done_color |-> txcq.done_color,
                    consumed |-> txcq.consumed],
                   [tail_idx |-> rxcq.tail_idx, done_color |-> rxcq.done_color,
                    consumed |-> rxcq.consumed]} :
          /\ cq.done_color = (cq.consumed < cq_num_descs)
          /\ cq.tail_idx = cq.consumed % cq_num_descs
    /\ last.op = "txrx_napi" =>
          /\ \A i \in 1 .. Len(last.seen) :
                last.seen[i].color = last.seen[i].done_color
          /\ \A i \in 1 .. Len(last.rx) :
                last.rx[i].ret => last.rx[i].comp.color = last.rx[i].done_color

\* a combined poll consumed the last entry of the first lap of the receive
\* queue and stopped, short of its budget, at a stale entry of that lap; the
\* transmit queue has wrapped as well
C11_Witness ==
    /\ last.op = "txrx_napi"
    /\ Len(last.rx) > 0
    /\ Len(last.rx) < last.budget
    /\ rxcq.consumed = cq_num_descs
    /\ ~rxcq.done_color
    /\ rxcq.info[rxcq.tail_idx].color
    /\ txcq.consumed >= cq_num_descs
    /\ Len(last.seen) > 0

\* the completion entries ionic_rx_service is tried on in every state
RxProbes ==
    [color : BOOLEAN, comp_index : Slots, status : {0}, len : {1},
     num_sg_elems : {0}]

RxNoWork(q, cq, e) ==
    \/ e.color # cq.done_color
    \/ q.head_idx = q.tail_idx
    \/ e.comp_index # q.tail_idx

\* C12: ionic_rx_service returns false and leaves the ring (tail_idx, every
\* slot's callback, argument and buffers) and the counters as they were when
\* the entry's colour is not the expected one, or the ring is empty, or
\* comp_index is not the index of the slot at tail_idx; otherwise it returns
\* true and tail_idx has advanced by exactly one slot. Checked on the calls
\* the last pass made and on every probe entry in every state.
C12_RxServiceNoWork ==
    /\ \A e \in RxProbes : \A env \in RxEnvs :
          \E r \in {ionic_rx_service(RxState, rxcq, e, env)} :
             IF RxNoWork(rxq, rxcq, e)
             THEN ~r.ret /\ r.q = rxq /\ r.log[1].res.dropped = 0
             ELSE r.ret /\ r.q.tail_idx = NextIdx(rxq.tail_idx)
                        /\ r.q.head_idx = rxq.head_idx
    /\ last.op = "rx_napi" =>
          \A i \in 1 .. Len(last.rx) :
             LET c == last.rx[i]
             IN IF c.comp.color # c.done_color \/ c.empty
                   \/ c.comp.comp_index # c.slot
                THEN ~c.ret /\ c.tail1 = c.tail0 /\ c.res.dropped = 0
                ELSE c.ret /\ c.tail1 = NextIdx(c.tail0)

\* a poll met, on a ring that was not empty, an entry of the expected colour
\* whose comp_index was not the slot at tail_idx
C12_Witness ==
    /\ last.op = "rx_napi"
    /\ \E i \in 1 .. Len(last.rx) :
          /\ ~last.rx[i].ret
          /\ ~last.rx[i].empty
          /\ last.rx[i].comp.color = last.rx[i].done_color
          /\ last.rx[i].comp.comp_index # last.rx[i].slot
    /\ rxq.head_idx # rxq.tail_idx

\* C13: a transmit completion pass completes only slots that were in flight
\* when it began, and no more of them than were in flight, so that tail_idx
\* does not move past head_idx: an entry whose comp_index names no in-flight
\* slot (the empty ring included) completes nothing.
C13_TxServiceAbortsOnMismatch ==
    last.op \in {"tx_napi", "tx_flush"} =>
        /\ Len(last.touched) <= last.space0
        /\ \A i \in 1 .. Len(last.touched) :
              last.touched[i] \in {(last.head0 - n) % num_descs : n \in 1 .. last.space0}

\* C14: under fair scheduling of the device's completions and of the poll, a
\* stopped subqueue is eventually woken.
C14_StoppedEventuallyWoken == tx_stopped ~> ~tx_stopped

RxAccepted ==
    {i \in 1 .. Len(last.rx) : last.rx[i].ret /\ last.rx[i].res.dropped = 0}

C17_BadFrameDropped ==
    last.op = "rx_napi" =>
        \A i \in 1 .. Len(last.rx) :
           LET c == last.rx[i]
           IN (c.ret /\ (c.comp.status # 0 \/ c.comp.len > RxFrameLen)) =>
                 /\ c.res.dropped = 1
                 /\ c.res.built = "none"
                 /\ c.res.delivered = "none"
                 /\ c.res.given = 0
                 /\ c.tail1 = NextIdx(c.tail0)
                 /\ c.res.bufs_same
                 /\ c.res.unmaps = 0 /\ c.res.recycles = 0

\* one poll dropped a frame for its status and a frame for its length, both
\* from slots whose buffer was allocated
C17_Witness ==
    /\ last.op = "rx_napi"
    /\ \E i, j \in 1 .. Len(last.rx) :
          /\ last.rx[i].ret /\ last.rx[i].comp.status # 0
          /\ last.rx[i].res.why = "status"
          /\ last.rx[i].res.first_kept /\ last.rx[j].res.first_kept
          /\ last.rx[j].ret /\ last.rx[j].comp.status = 0
          /\ last.rx[j].comp.len > RxFrameLen
          /\ last.rx[j].res.why = "len"

\* C18: when ionic_rx_empty returns no slot of the receive ring is in flight
\* (head_idx = tail_idx) and the buffers of the slots it walked are free; when
\* ionic_tx_empty returns no slot of the transmit ring is in flight.
C18_QuiesceDrains ==
    /\ last.op = "rx_empty" =>
          /\ rxq.head_idx = rxq.tail_idx
          /\ \A i \in 1 .. Len(last.walked) :
                \A j \in BufIdx : rxq.info[last.walked[i]].bufs[j].page = NULL
    /\ last.op = "tx_empty" => txq.head_idx = txq.tail_idx

\* C19: ionic_rx_page_free applied twice to a buffer: the first call unmaps
\* and frees an allocated buffer once and resets it, the second call unmaps
\* and frees nothing and changes nothing, and the buffer is empty after each
\* call. Checked on every buffer of the receive ring in every state, and on
\* ionic_rx_empty, after which the buffers of the slots it walked are empty.
C19_PageFreeIdempotent ==
    /\ \A i \in Slots : \A j \in BufIdx :
          \E r1 \in {ionic_rx_page_free(rxq.info[i].bufs[j])} :
          \E r2 \in {ionic_rx_page_free(r1.buf)} :
             /\ r1.unmaps = (IF rxq.info[i].bufs[j].page # NULL THEN 1 ELSE 0)
             /\ r1.frees = r1.unmaps
             /\ r1.buf = EmptyBuf
             /\ r2.unmaps = 0 /\ r2.frees = 0
             /\ r2.buf = EmptyBuf
    /\ last.op = "rx_empty" =>
          \A i \in 1 .. Len(last.walked) :
             \A j \in BufIdx :
                j < rxq.info[last.walked[i]].npages =>
                   rxq.info[last.walked[i]].bufs[j] = EmptyBuf

\* ionic_rx_empty walked slots whose buffers an earlier ionic_rx_empty had
\* freed: every ionic_rx_page_free it called was the second on its buffer and
\* freed nothing; elsewhere in the ring a buffer is still allocated
C19_Witness ==
    /\ last.op = "rx_empty"
    /\ last.walked # <<>>
    /\ \A i \in 1 .. Len(last.walked) : rxq.info[last.walked[i]].npages > 0
    /\ last.frees = 0
    /\ \E i \in Slots : rxq.info[i].bufs[0].page # NULL

\* C20: in a pass of ionic_rx_fill no post rings the doorbell, and a pass that
\* posted at least one descriptor has rung the doorbell exactly once, at its
\* end, with the final head_idx.
C20_FillRingsOnceAtEnd ==
    (last.op \in {"rx_fill", "rx_napi"} /\ last.fill.called) =>
        /\ \A i \in 1 .. Len(last.fill.posts) : ~last.fill.posts[i].dbell
        /\ last.fill.posts # <<>> =>
              /\ last.fill.rung = 1
              /\ last.fill.dbell1 = last.fill.head1

\* C21: with allocation possible again and the poll re-invoked fairly, a
\* receive ring that has free slots is eventually refilled: it reaches a
\* state in which every slot that can be posted is posted.
C21_RingEventuallyRefilled ==
    (ionic_q_space_avail(rxq) > 0) ~> (ionic_q_space_avail(rxq) = 0)

\* C22: every buffer that the descriptor or a scatter-gather element of an
\* in-flight receive slot refers to (the first npages buffers of a slot
\* between tail_idx and head_idx) is allocated and mapped.
C22_InFlightBuffersMapped ==
    \A i \in InFlightSlots(rxq) :
       /\ rxq.info[i].npages >= 1
       /\ \A j \in BufIdx :
             j < rxq.info[i].npages =>
                /\ rxq.info[i].bufs[j].page # NULL
                /\ rxq.info[i].bufs[j].dma_addr # 0

\* the slots from a through b inclusive, in ring order
RingSeq(a, b) == [n \in 1 .. ((b - a) % num_descs) + 1 |-> (a + n - 1) % num_descs]

\* C23: when comp_index is the index of a slot k in flight, one call of
\* ionic_tx_service pops exactly the slots from the old tail_idx through k, in
\* posting order, leaves each with cb and cb_arg cleared, leaves tail_idx at
\* (k + 1) mod N and head_idx where it was, and leaves the slots posted after
\* k in flight and as they were.
C23_CompletesThroughIndex ==
    last.op \in {"tx_napi", "tx_flush"} =>
        \A n \in 1 .. Len(last.seen) :
           LET c == last.seen[n]
           IN (c.comp_index - c.tail0) % num_descs < (c.head0 - c.tail0) % num_descs =>
                 /\ c.cleaned = RingSeq(c.tail0, c.comp_index)
                 /\ c.cleared
                 /\ c.tail1 = (c.comp_index + 1) % num_descs
                 /\ c.head1 = c.head0
                 /\ c.rest_same

\* one completion entry closed two slots, and a slot posted after them stayed
\* in flight
C23_Witness ==
    /\ last.op \in {"tx_napi", "tx_flush"}
    /\ \E n \in 1 .. Len(last.seen) :
          /\ Len(last.seen[n].cleaned) = 2
          /\ last.seen[n].comp_index = last.seen[n].cleaned[2]
          /\ last.seen[n].tail1 # last.seen[n].head1
    /\ ~tx_desync

\* ---------------------------------------------------------------- C24
\* C24: under every interleaving of the steps of ionic_maybe_stop_tx with
\* those of transmit completion, once both have returned the subqueue is
\* never left stopped with an empty ring (every slot free, nothing in flight
\* whose completion would wake it); and ionic_maybe_stop_tx returns 1 only
\* when its second look at the ring found no room.
FcQuiet == fc.xpc = "idle" /\ fc.cpc = "idle" /\ fc.vis_tail = fc.tail

FcLostWakeup ==
    /\ FcQuiet
    /\ fc.stopped
    /\ fc.head = fc.tail
    /\ fc_q_has_space(fc.head, fc.tail, fc.need)

C24_ReportsOnlyIfFull ==
    (fc.xpc \in {"idle", "post"} /\ fc.ret = 1) => fc.refull

\* The wake-up is lost only when a look at the ring returned a tail older
\* than the one the completion had stored.
C24_LostOnlyByStaleTail == FcLostWakeup => fc.raced

\* ---------------------------------------------------------------- C25
\* C25: whatever the length, segment size, header length and fragment layout
\* of a segmentation-offload packet, ionic_tx_tso posts no more descriptors
\* than ionic_tx_descs_needed estimated, and therefore no more than the free
\* slots the space check found: head_idx never reaches tail_idx.
C25_TsoWithinEstimate ==
    (Sent /\ last.called = "tso") =>
        /\ Len(last.posts) <= last.ndescs
        /\ last.ndescs <= last.space0
        /\ (txq.head_idx - last.head0) % num_descs <= Len(last.posts)
        /\ InFlight(txq) = (num_descs - 1 - last.space0)
                           + ((txq.head_idx - last.head0) % num_descs)

\* a packet whose segments use up the whole estimate, on a ring with exactly
\* that many free slots
C25_Witness ==
    /\ Sent /\ last.called = "tso" /\ ~last.err
    /\ Len(last.posts) = last.ndescs
    /\ last.ndescs = last.space0
    /\ last.ndescs >= 2
    /\ last.nfrags >= 2

\* ---------------------------------------------------------------- C26
\* C26: every descriptor a send posts, segmented or not, carries at most
\* max_sg_elems scatter-gather elements.
C26_SgWithinLimit ==
    Sent => \A i \in 1 .. Len(last.posts) : last.posts[i].nsge <= max_sg_elems

\* The part of C26 that holds: a send that is not segmented posts at most
\* max_sg_elems elements, a packet of more fragments having been linearised.
C26_NonTsoWithinLimit ==
    (Sent /\ last.called = "tx") =>
        \A i \in 1 .. Len(last.posts) : last.posts[i].nsge <= max_sg_elems

\* ---------------------------------------------------------------- C27
\* C27: when ionic_rx_empty returns, no buffer of any slot of the receive
\* ring is still allocated or mapped, the slots that were not in flight
\* included.
C27_EmptyFreesEverySlot ==
    last.op = "rx_empty" =>
        \A i \in Slots : \A j \in BufIdx :
            /\ rxq.info[i].bufs[j].page = NULL
            /\ rxq.info[i].bufs[j].dma_addr = 0

\* The part of C27 that holds: the slots ionic_rx_empty walks, tail_idx up to
\* head_idx, keep no buffer among those their descriptor counted.
C27_EmptyFreesWalkedSlots ==
    last.op = "rx_empty" =>
        \A n \in 1 .. Len(last.walked) : \A j \in BufIdx :
            j < rxq.info[last.walked[n]].npages =>
                /\ rxq.info[last.walked[n]].bufs[j].page = NULL
                /\ rxq.info[last.walked[n]].bufs[j].dma_addr = 0

\* ---------------------------------------------------------------- C28
\* C28: when ionic_tx_tso gives up on a DMA mapping failure, every mapping it
\* made for the packet has been unmapped when it returns, those of the
\* descriptor it was still building included.
C28_AbortUnmapsAll ==
    (Sent /\ last.called = "tso" /\ last.err /\ last.mapfail) =>
        last.maps \subseteq last.unmaps

\* The part of C28 that holds: the mappings of the descriptors already posted
\* are unmapped by the abort.
C28_AbortUnmapsPosted ==
    (Sent /\ last.called = "tso" /\ last.err /\ last.mapfail) =>
        /\ PostMaps \subseteq last.unmaps
        /\ last.maps \ last.unmaps
              \subseteq {m \in last.maps : m[1] = (last.head0 + Len(last.posts)) % num_descs}
====
